---- MODULE Spec2Model ----
(***************************************************************************)
(* A model of the inetda prefix indices: the bit extractor and binary      *)
(* prefix trie of ipm.py (IPTree), its two consumers (RTSim, VRPS) with    *)
(* their row sources, the linear prefix scanner of ipfind.py (IPFind), and  *)
(* the download loop of RIPEValidatorConnector.py (getBGPPreview).         *)
(*                                                                         *)
(* Addresses are kept as their packed byte sequences (4 bytes for family   *)
(* 4, 16 bytes for family 6), exactly what IPTree._bits consumes.  A trie  *)
(* is a function from node paths (the bit sequence leading from the root   *)
(* to the node) to the node's key and value slots; Python's None is the    *)
(* empty sequence and a present value x is <<x>>.                          *)
(***************************************************************************)
EXTENDS Integers, Sequences, FiniteSets, TLC

VARIABLES
  pfxs,      \* tree_test's pfxs: one IPTree per family
  table,     \* IPFind.table: the stored (network, value) pairs in insertion order
  rtsim,     \* RTSim.trees: one IPTree per family
  vrps,      \* VRPS.trees: one IPTree per family
  inserted,  \* history: key -> value last handed to IPTree.__setitem__ / IPFind.addToTable
  ingested,  \* history: the tuples the row sources yielded, in input order
  op,        \* the last operation performed: its name, argument, result and exception
  preview    \* the activation of RPKIValidatorAPI.getBGPPreview: its position and locals

vars == <<pfxs, table, rtsim, vrps, inserted, ingested, op, preview>>

----------------------------------------------------------------------------
(* Bounds of the model *)

\* at most this many distinct keys are inserted into an index
MaxEntries == 2
\* an input file holds at most this many rows
MaxRows == 2
\* getBGPPreview is called with maxAttempts from 1 to this
MaxAttemptsArg == 4

----------------------------------------------------------------------------
(* Python values *)

None == <<>>
Some(x) == <<x>>

Versions == {4, 6}

\* for byte in abytes: for _ in range(8)
BitsPerByte == 8
\* the high bit tested by 0b10000000 & byte
HighBit == 128

\* limit = 32 if self.ipv == 4 else 128
DefaultLimit(ipv) == IF ipv = 4 THEN 32 ELSE 128

\* len(address.packed)
PackedLen(ipv) == DefaultLimit(ipv) \div BitsPerByte

\* 2^n for the shifts within one byte
Pow2(n) == <<1, 2, 4, 8, 16, 32, 64, 128, 256>>[n + 1]

Zeros(n) == [i \in 1..n |-> 0]

\* the packed form of an address whose leading bytes are `lead`, the rest zero
Pack(ipv, lead) == lead \o Zeros(PackedLen(ipv) - Len(lead))

\* ipaddress.IPv4Network / IPv6Network
Network(ipv, lead, plen) ==
  [cls |-> "Network", version |-> ipv, packed |-> Pack(ipv, lead), prefixlen |-> plen]

\* ipaddress.IPv4Address / IPv6Address (prefixlen holds max_prefixlen)
Address(ipv, lead) ==
  [cls |-> "Address", version |-> ipv, packed |-> Pack(ipv, lead),
   prefixlen |-> DefaultLimit(ipv)]

IsNetwork(key) == key.cls = "Network"

----------------------------------------------------------------------------
(* The key universe *)

\* 0.0.0.0/0 and its two halves 0.0.0.0/1 and 128.0.0.0/1
ShortNets4 == { Network(4, <<>>, 0), Network(4, <<>>, 1), Network(4, <<128>>, 1) }

\* with them, the networks of tree_test: 192.168.0.0/16 and 192.168.1.0/24
Nets4 ==
  ShortNets4 \cup { Network(4, <<192, 168>>, 16), Network(4, <<192, 168, 1>>, 24) }

\* ::/0 and fe80::/10
Nets6 == { Network(6, <<>>, 0), Network(6, <<254, 128>>, 10) }

Nets == Nets4 \cup Nets6

\* 192.168.1.5 and 192.168.0.5 (tree_test), 100.1.1.1, 200.1.1.1
Addrs4 ==
  { Address(4, <<192, 168, 1, 5>>), Address(4, <<192, 168, 0, 5>>),
    Address(4, <<100, 1, 1, 1>>), Address(4, <<200, 1, 1, 1>>) }

\* fe80::1
Addrs6 == { Address(6, <<254, 128, 0, 0, 0, 0, 0, 0, 0, 0, 0, 0, 0, 0, 0, 1>>) }

Addrs == Addrs4 \cup Addrs6

Keys == Nets \cup Addrs

\* the values tree_test stores
Values == {"test1", "test2"}

----------------------------------------------------------------------------
(* IPTree *)

\* IPTreeNode.__init__
IPTreeNode == [key |-> None, value |-> None]

\* IPTree.__init__: a tree is its root node
IPTree == (<<>> :> IPTreeNode)

\* limit=None
NoLimit == -1

\* bool(0b10000000 & byte) after byte has been shifted left (j % 8) times
BitAt(abytes, j) ==
  ((abytes[(j \div BitsPerByte) + 1] * Pow2(j % BitsPerByte)) \div HighBit) % 2 = 1

\* the limit the generator works with
Limit(ipv, limit) == IF limit = NoLimit THEN DefaultLimit(ipv) ELSE limit

\* how many bits the generator yields: i counts the yields and `if i >= limit:
\* return` is tested only after a yield, so the first bit is yielded before any
\* test; the loops end on their own when the bytes run out
Yields(abytes, limit) ==
  LET total == Len(abytes) * BitsPerByte
      stop == IF limit <= 1 THEN 1 ELSE limit
  IN  IF stop <= total THEN stop ELSE total

\* everything the generator yields when it is drawn to its end
_bits(ipv, abytes, limit) ==
  [j \in 1..Yields(abytes, Limit(ipv, limit)) |-> BitAt(abytes, j - 1)]

\* traverse's choice of the limit by the key's type
KeyLimit(key) == IF IsNetwork(key) THEN key.prefixlen ELSE NoLimit

\* the bits traverse would draw from the generator if it drew them all
KeyBits(ipv, key) == _bits(ipv, key.packed, KeyLimit(key))

\* traverse's loop without create_nodes, from the j-th bit at node `point`:
\* it draws one bit at a time from the generator (n bits in all) and breaks
\* at the first missing child
RECURSIVE Walk(_, _, _, _, _)
Walk(nodes, abytes, n, j, point) ==
  IF j >= n
  THEN <<>>
  ELSE LET next == Append(point, BitAt(abytes, j))
       IN  IF next \in DOMAIN nodes
           THEN <<next>> \o Walk(nodes, abytes, n, j + 1, next)
           ELSE <<>>

\* traverse(key): the nodes yielded, root excluded
traverse(nodes, ipv, key) ==
  Walk(nodes, key.packed, Yields(key.packed, Limit(ipv, KeyLimit(key))), 0, <<>>)

\* the nodes traverse(key, create_nodes=True) leaves in the tree
CreateNodes(nodes, abits) ==
  nodes @@ [p \in { SubSeq(abits, 1, i) : i \in 1..Len(abits) } |-> IPTreeNode]

\* a setdefault-like insert: a node that already carries a key keeps its
\* key and value
SetItemKeepsFirst(nodes, ipv, key, value) ==
  LET abits == KeyBits(ipv, key)
  IN  IF abits = <<>> \/ (abits \in DOMAIN nodes /\ nodes[abits].key # None)
      THEN nodes
      ELSE [CreateNodes(nodes, abits) EXCEPT
              ![abits] = [key |-> Some(key), value |-> Some(value)]]

\* IPTree.__setitem__; with nothing yielded `point` is unbound and the
\* assignment raises before it changes anything
__setitem__(nodes, ipv, key, value) ==
  LET abits == KeyBits(ipv, key)
  IN  IF abits = <<>>
      THEN nodes
      ELSE [CreateNodes(nodes, abits) EXCEPT
              ![abits] = [key |-> Some(key), value |-> Some(value)]]

\* what a caller sees of a node
NodeView(nodes, point) ==
  [path |-> point, key |-> nodes[point].key, value |-> nodes[point].value]

\* a findExact that takes the first visited node carrying any key
FindExactAnyKey(nodes, ipv, key) ==
  LET hits == SelectSeq(traverse(nodes, ipv, key), LAMBDA p : nodes[p].key # None)
  IN  IF hits = <<>> THEN None ELSE Some(Head(hits))

\* IPTree.findExact: the node, or None for KeyError
findExact(nodes, ipv, key) ==
  LET hits == SelectSeq(traverse(nodes, ipv, key), LAMBDA p : nodes[p].key = Some(key))
  IN  IF hits = <<>> THEN None ELSE Some(Head(hits))

\* a findAll that reports the deepest node first
FindAllDeepestFirst(nodes, ipv, key) ==
  LET hits == SelectSeq(traverse(nodes, ipv, key), LAMBDA p : nodes[p].value # None)
  IN  [i \in 1..Len(hits) |-> hits[Len(hits) + 1 - i]]

\* IPTree.findAll
findAll(nodes, ipv, key) ==
  SelectSeq(traverse(nodes, ipv, key), LAMBDA p : nodes[p].value # None)

\* findLongestPrefix's loop: the last visited node whose value is not None
RECURSIVE BestPoint(_, _, _)
BestPoint(nodes, points, bestpoint) ==
  IF points = <<>>
  THEN bestpoint
  ELSE BestPoint(nodes, Tail(points),
                 IF nodes[Head(points)].value # None THEN Some(Head(points)) ELSE bestpoint)

\* IPTree.findLongestPrefix: bestpoint, None when no node carried a value
findLongestPrefix(nodes, ipv, key) == BestPoint(nodes, traverse(nodes, ipv, key), None)

\* IPTree.__contains__
Contains(nodes, ipv, key) == findExact(nodes, ipv, key) # None

----------------------------------------------------------------------------
(* Operation records *)

NoExc == "none"

\* name: the operation; key: the key or input it was given; arg: its other
\* argument; res: what it returned or yielded; exc: the exception it raised
Op(name, key, arg, res, exc) ==
  [name |-> name, key |-> key, arg |-> arg, res |-> res, exc |-> exc]

Idle == Op("init", None, None, <<>>, NoExc)

Views(nodes, points) == [i \in 1..Len(points) |-> NodeView(nodes, points[i])]

\* getBGPPreview's locals: maxAttempts, the loop variable i (the failed
\* attempts so far), totalCount and lastModified of the last metadata
\* request, the response returned; attempts counts the attempts begun
Activation(pc, maxAttempts, i, attempts, totalCount, lastModified, response) ==
  [pc |-> pc, maxAttempts |-> maxAttempts, i |-> i, attempts |-> attempts,
   totalCount |-> totalCount, lastModified |-> lastModified, response |-> response]

\* getBGPPreview has not been called
NoCall == Activation("idle", 0, 0, 0, 0, 0, None)

----------------------------------------------------------------------------
(* The bit extractor on its own *)

ByteArrays ==
  { Pack(4, <<192, 168, 1, 5>>), Pack(4, <<>>), Pack(4, <<128>>),
    Pack(4, <<10, 0, 0, 1>>), Pack(4, <<255, 255, 255, 255>>) }

InitBits ==
  /\ pfxs = [v \in Versions |-> IPTree]
  /\ table = <<>>
  /\ rtsim = [v \in Versions |-> IPTree]
  /\ vrps = [v \in Versions |-> IPTree]
  /\ inserted = <<>>
  /\ ingested = <<>>
  /\ preview = NoCall
  /\ \E abytes \in ByteArrays, limit \in 0..DefaultLimit(4) :
       op = Op("input", abytes, limit, <<>>, NoExc)

CallBits ==
  /\ op.name = "input"
  /\ op' = Op("_bits", op.key, op.arg, _bits(4, op.key, op.arg), NoExc)
  /\ UNCHANGED <<preview, pfxs, table, rtsim, vrps, inserted, ingested>>

NextBits == CallBits

SpecBits == InitBits /\ [][NextBits]_vars

----------------------------------------------------------------------------
(* The trie on its own: tree_test's pair of trees, filled and queried *)

Blank ==
  /\ pfxs = [v \in Versions |-> IPTree]
  /\ table = <<>>
  /\ rtsim = [v \in Versions |-> IPTree]
  /\ vrps = [v \in Versions |-> IPTree]
  /\ inserted = <<>>
  /\ ingested = <<>>
  /\ preview = NoCall

\* nothing inserted, nothing asked
Start == Blank /\ op = Idle

\* at most MaxEntries distinct keys are ever inserted
Room(key) == key \in DOMAIN inserted \/ Cardinality(DOMAIN inserted) < MaxEntries

\* pfxs[n.version][n] = value; the record keeps the node an exact lookup of
\* the key found before the assignment
SetItem(key, value) ==
  LET nodes == pfxs[key.version]
      before == findExact(nodes, key.version, key)
  IN  /\ Room(key)
      /\ pfxs' = [pfxs EXCEPT ![key.version] = __setitem__(nodes, key.version, key, value)]
      /\ inserted' = (key :> value) @@ inserted
      /\ op' = Op("__setitem__", key, value, Views(nodes, before), NoExc)
      /\ UNCHANGED <<preview, table, rtsim, vrps, ingested>>

\* IPTree.lookupExact / __getitem__
LookupExact(key) ==
  LET nodes == pfxs[key.version]
      found == findExact(nodes, key.version, key)
  IN  /\ op' = Op("lookupExact", key, None, Views(nodes, found),
                  IF found = None THEN "KeyError" ELSE NoExc)
      /\ UNCHANGED <<preview, pfxs, table, rtsim, vrps, inserted, ingested>>

\* key in pfxs[key.version]
In(key) ==
  /\ op' = Op("__contains__", key, None, Some(Contains(pfxs[key.version], key.version, key)), NoExc)
  /\ UNCHANGED <<preview, pfxs, table, rtsim, vrps, inserted, ingested>>

\* IPTree.lookupLongestPrefix
LookupLongestPrefix(key) ==
  LET nodes == pfxs[key.version]
      best == findLongestPrefix(nodes, key.version, key)
  IN  /\ op' = Op("lookupLongestPrefix", key, None, Views(nodes, best),
                  IF best = None THEN "KeyError" ELSE NoExc)
      /\ UNCHANGED <<preview, pfxs, table, rtsim, vrps, inserted, ingested>>

\* IPTree.lookupAll
LookupAll(key) ==
  LET nodes == pfxs[key.version]
  IN  /\ op' = Op("lookupAll", key, None, Views(nodes, findAll(nodes, key.version, key)), NoExc)
      /\ UNCHANGED <<preview, pfxs, table, rtsim, vrps, inserted, ingested>>

NextTree ==
  \/ \E key \in Nets, value \in Values : SetItem(key, value)
  \/ \E key \in Keys : LookupExact(key)
  \/ \E key \in Keys : LookupLongestPrefix(key)
  \/ \E key \in Keys : LookupAll(key)
  \/ \E key \in Keys : In(key)

SpecTree == Start /\ [][NextTree]_vars

----------------------------------------------------------------------------
(* IPFind, the linear scanner, loaded side by side with a pair of tries *)

\* ipaddress.ip_network(k) of a network or address object: an address
\* becomes the single-address network
ip_network(k) == [k EXCEPT !.cls = "Network"]

\* x <= y for two packed addresses of one family
LeqBytes(x, y) ==
  \/ x = y
  \/ \E i \in 1..Len(x) : x[i] < y[i] /\ \A j \in 1..(i - 1) : x[j] = y[j]

\* network.broadcast_address: the network address with every host bit set
Broadcast(n) ==
  [i \in 1..Len(n.packed) |->
     LET over == (i * BitsPerByte) - n.prefixlen
         host == IF over <= 0 THEN 0 ELSE IF over >= BitsPerByte THEN BitsPerByte ELSE over
     IN  n.packed[i] + Pow2(host) - 1]

\* ipk.subnet_of(p) raises TypeError for networks of two families
SubnetOfRaises(a, b) == a.version # b.version

\* ipk.subnet_of(p) for networks of one family
subnet_of(a, b) == LeqBytes(b.packed, a.packed) /\ LeqBytes(Broadcast(a), Broadcast(b))

\* the position of key p in the table, 0 when it is not stored
SlotOf(tbl, p) ==
  IF \E i \in 1..Len(tbl) : tbl[i].k = p
  THEN CHOOSE i \in 1..Len(tbl) : tbl[i].k = p
  ELSE 0

\* IPFind.addToTable: dict.update keeps a stored key's position
addToTable(tbl, k, v) ==
  LET p == ip_network(k)
      i == SlotOf(tbl, p)
  IN  IF i = 0 THEN Append(tbl, [k |-> p, v |-> v]) ELSE [tbl EXCEPT ![i].v = v]

\* IPFind.match from the i-th stored entry on: the pairs yielded and the
\* exception that ended the scan
RECURSIVE MatchFrom(_, _, _)
MatchFrom(tbl, ipk, i) ==
  IF i > Len(tbl)
  THEN [res |-> <<>>, exc |-> NoExc]
  ELSE IF SubnetOfRaises(ipk, tbl[i].k)
       THEN [res |-> <<>>, exc |-> "TypeError"]
       ELSE LET rest == MatchFrom(tbl, ipk, i + 1)
            IN  IF subnet_of(ipk, tbl[i].k)
                THEN [res |-> <<tbl[i]>> \o rest.res, exc |-> rest.exc]
                ELSE rest

match(tbl, k) == MatchFrom(tbl, ip_network(k), 1)

\* matchBest's loop: the first pair, then every pair of greater prefix length
RECURSIVE BestPair(_, _)
BestPair(pairs, b) ==
  IF pairs = <<>>
  THEN b
  ELSE BestPair(Tail(pairs),
                IF b = None \/ b[1].k.prefixlen < Head(pairs).k.prefixlen
                THEN Some(Head(pairs))
                ELSE b)

\* IPFind.matchBest: (bk, bv), None for (None, None); an exception raised by
\* match ends it
matchBest(tbl, k) ==
  LET m == match(tbl, k)
  IN  IF m.exc # NoExc
      THEN [res |-> None, exc |-> m.exc]
      ELSE [res |-> BestPair(m.res, None), exc |-> NoExc]

\* one (prefix, value) pair stored in an IPFind and in the trie of its family
Load(key, value) ==
  /\ Room(key)
  /\ table' = addToTable(table, key, value)
  /\ pfxs' = [pfxs EXCEPT ![key.version] = __setitem__(@, key.version, key, value)]
  /\ inserted' = (key :> value) @@ inserted
  /\ op' = Op("load", key, value, <<>>, NoExc)
  /\ UNCHANGED <<preview, rtsim, vrps, ingested>>

\* list(f.match(k))
Match(key) ==
  LET m == match(table, key)
  IN  /\ op' = Op("match", key, None, m.res, m.exc)
      /\ UNCHANGED <<preview, pfxs, table, rtsim, vrps, inserted, ingested>>

\* f.matchBest(k)
MatchBest(key) ==
  LET m == matchBest(table, key)
  IN  /\ op' = Op("matchBest", key, None, m.res, m.exc)
      /\ UNCHANGED <<preview, pfxs, table, rtsim, vrps, inserted, ingested>>

NextFind ==
  \/ \E key \in Nets, value \in Values : Load(key, value)
  \/ \E key \in Keys : Match(key)
  \/ \E key \in Keys : MatchBest(key)
  \/ \E key \in Keys : LookupLongestPrefix(key)

SpecFind == Start /\ [][NextFind]_vars

----------------------------------------------------------------------------
(* Input text: a line or CSV row is a sequence of tokens *)

\* a token that is no address, network or number
Word(w) == [kind |-> "word", word |-> w, version |-> 0, packed |-> <<>>, prefixlen |-> 0, n |-> 0]

\* the text of a number
Num(n) == [kind |-> "int", word |-> "", version |-> 0, packed |-> <<>>, prefixlen |-> 0, n |-> n]

\* the text "address/prefixlen"; the address may have host bits set
Cidr(ipv, lead, plen) ==
  [kind |-> "cidr", word |-> "", version |-> ipv, packed |-> Pack(ipv, lead),
   prefixlen |-> plen, n |-> 0]

\* the text of a bare address
Bare(ipv, lead) ==
  [kind |-> "addr", word |-> "", version |-> ipv, packed |-> Pack(ipv, lead),
   prefixlen |-> 0, n |-> 0]

\* ipaddress.ip_network(text), strict: the network, or None for ValueError
ParseNetwork(tok) ==
  IF tok.kind = "addr"
  THEN Some([cls |-> "Network", version |-> tok.version, packed |-> tok.packed,
             prefixlen |-> DefaultLimit(tok.version)])
  ELSE IF /\ tok.kind = "cidr"
          /\ \A j \in tok.prefixlen..(DefaultLimit(tok.version) - 1) : ~BitAt(tok.packed, j)
       THEN Some([cls |-> "Network", version |-> tok.version, packed |-> tok.packed,
                  prefixlen |-> tok.prefixlen])
       ELSE None

\* int(text): the number, or None for ValueError
ParseInt(tok) == IF tok.kind = "int" THEN Some(tok.n) ELSE None

\* what a row source makes of one row
Yield(t) == [kind |-> "yield", tuple |-> t, exc |-> NoExc]
Skip == [kind |-> "skip", tuple |-> <<>>, exc |-> NoExc]
Raise(e) == [kind |-> "raise", tuple |-> <<>>, exc |-> e]

\* the first element of r, from the i-th on, that parses as a network
RECURSIVE FirstNetwork(_, _)
FirstNetwork(r, i) ==
  IF i > Len(r)
  THEN None
  ELSE IF ParseNetwork(r[i]) # None THEN ParseNetwork(r[i]) ELSE FirstNetwork(r, i + 1)

\* RTSim._read_csv on one row: the first element that parses, with the row
read_csv(r) ==
  LET addr == FirstNetwork(r, 1)
  IN  IF addr = None THEN Skip ELSE Yield(<<addr[1], r>>)

\* guess_afi: the family of the first word that parses, 0 for None
guess_afi(l) ==
  LET dip == FirstNetwork(l, 1)
  IN  IF dip = None THEN 0 ELSE dip[1].version

\* RTSim._read_linux_rt on one line; `except: raise` hands every error on
read_linux_rt(l) ==
  LET first == IF l = <<>> THEN Word("") ELSE l[1]
  IN  IF first = Word("default")
      THEN IF guess_afi(l) = 4 THEN Yield(<<Network(4, <<>>, 0), l>>)
           ELSE IF guess_afi(l) = 6 THEN Yield(<<Network(6, <<>>, 0), l>>)
           ELSE Raise("RuntimeError")
      ELSE IF ParseNetwork(first) = None
           THEN Raise("ValueError")
           ELSE Yield(<<ParseNetwork(first)[1], l>>)

\* VRPS._read_vrps on one row: r[1], r[2], r[0], r[3]; any error skips it
read_vrps(r) ==
  IF Len(r) < 4 \/ ParseNetwork(r[2]) = None \/ ParseInt(r[3]) = None
  THEN Skip
  ELSE Yield(<<ParseNetwork(r[2])[1], ParseInt(r[3])[1], r[1], r[4]>>)

RowSource(form, r) ==
  IF form = "linuxrt" THEN read_linux_rt(r)
  ELSE IF form = "csv" THEN read_csv(r)
  ELSE read_vrps(r)

----------------------------------------------------------------------------
(* RTSim and VRPS, driven as ipm.main drives them *)

\* `if not a in tree: tree[a] = empty`
Ensure(nodes, ipv, a, empty) ==
  IF Contains(nodes, ipv, a) THEN nodes ELSE __setitem__(nodes, ipv, a, empty)

\* the body of readRT's loop: self.trees[a.version][a].append(r); a failed
\* exact lookup of a (KeyError) leaves the list as it is
IngestRT(trees, t) ==
  LET ipv == t[1].version
      made == Ensure(trees[ipv], ipv, t[1], <<>>)
      point == findExact(made, ipv, t[1])
  IN  [trees EXCEPT ![ipv] =
         IF point = None
         THEN made
         ELSE [made EXCEPT ![point[1]].value = Some(Append(@[1], t[2]))]]

\* the body of readVRPS's loop: self.trees[pfx.version][pfx].add(tuple)
IngestVRP(trees, t) ==
  LET ipv == t[1].version
      made == Ensure(trees[ipv], ipv, t[1], {})
      point == findExact(made, ipv, t[1])
  IN  [trees EXCEPT ![ipv] =
         IF point = None
         THEN made
         ELSE [made EXCEPT ![point[1]].value = Some(@[1] \cup {t})]]

\* a reader's loop over the rows of infile from the i-th on: each tuple is
\* ingested as it is yielded, and an exception ends the loop
RECURSIVE Read(_, _, _, _, _)
Read(trees, form, infile, i, yielded) ==
  IF i > Len(infile)
  THEN [trees |-> trees, yielded |-> yielded, exc |-> NoExc]
  ELSE LET out == RowSource(form, infile[i])
       IN  IF out.kind = "raise"
           THEN [trees |-> trees, yielded |-> yielded, exc |-> out.exc]
           ELSE IF out.kind = "skip"
                THEN Read(trees, form, infile, i + 1, yielded)
                ELSE Read(IF form = "vrps" THEN IngestVRP(trees, out.tuple)
                                           ELSE IngestRT(trees, out.tuple),
                          form, infile, i + 1, Append(yielded, out.tuple))

\* RTSim.readRT
readRT(trees, infile, form) == Read(trees, form, infile, 1, <<>>)

\* VRPS.readVRPS
readVRPS(trees, vrpsfile) == Read(trees, "vrps", vrpsfile, 1, <<>>)

\* RTSim.matchIP: the value of the best node, None for KeyError
matchIP(trees, ipa) ==
  LET best == findLongestPrefix(trees[ipa.version], ipa.version, ipa)
  IN  IF best = None THEN None ELSE trees[ipa.version][best[1]].value

\* the tuples matchPfx yields at the nodes from the i-th visited on
RECURSIVE Candidates(_, _, _, _)
Candidates(nodes, points, i, inpfx) ==
  IF i > Len(points)
  THEN {}
  ELSE LET value == nodes[points[i]].value
           here == IF value = None
                   THEN {}
                   ELSE { nv \in value[1] :
                            \/ inpfx.prefixlen <= nv[2]
                            \/ inpfx.prefixlen = DefaultLimit(inpfx.version) }
       IN  here \cup Candidates(nodes, points, i + 1, inpfx)

\* VRPS.matchPfx, as the set main makes of it
matchPfx(trees, inpfx) ==
  Candidates(trees[inpfx.version],
             traverse(trees[inpfx.version], inpfx.version, inpfx), 1, inpfx)

\* the lines of `ip route` output offered as input
LinuxLines ==
  { <<Word("default"), Word("via"), Bare(4, <<10, 0, 0, 1>>), Word("dev"), Word("eth0")>>,
    <<Word("default"), Word("via"), Bare(6, <<254, 128>>), Word("dev"), Word("eth0")>>,
    <<Word("default"), Word("dev"), Word("tun0")>>,
    <<Cidr(4, <<192, 168>>, 16), Word("dev"), Word("eth0")>>,
    <<Cidr(4, <<192, 168>>, 16), Word("dev"), Word("eth1")>>,
    <<Cidr(4, <<>>, 1), Word("via"), Bare(4, <<10, 8, 0, 1>>)>>,
    <<Word("unreachable"), Cidr(4, <<192, 168, 1>>, 24)>> }

\* the CSV rows offered as input
CsvRows ==
  { <<Word("x"), Cidr(4, <<192, 168>>, 16), Word("a")>>,
    <<Word("z"), Cidr(4, <<192, 168>>, 16), Word("b")>>,
    <<Cidr(4, <<192, 168, 1>>, 24), Word("c")>>,
    <<Word("y"), Cidr(4, <<192, 168, 1, 5>>, 24)>>,
    <<Word("foo"), Word("bar")>> }

\* the VRP rows offered as input: ASN, prefix, maxlen, registry
VrpRows ==
  { <<Word("AS1"), Cidr(4, <<10>>, 8), Num(16), Word("rir1")>>,
    <<Word("AS2"), Cidr(4, <<10>>, 8), Num(24), Word("rir1")>>,
    <<Word("AS3"), Cidr(4, <<>>, 1), Num(1), Word("rir2")>>,
    <<Word("AS0"), Cidr(4, <<>>, 0), Num(32), Word("rir2")>>,
    <<Word("AS4"), Cidr(4, <<10>>, 8), Word("x"), Word("rir1")>>,
    <<Word("bad")>> }

\* the announced networks asked of the VRP matcher
Announced ==
  { Network(4, <<10>>, 24), Network(4, <<10>>, 16), Network(4, <<10>>, 8),
    Network(4, <<10, 0, 0, 1>>, 32), Network(4, <<200>>, 8), Network(4, <<>>, 0) }

\* the files of at most MaxRows rows
Files(rows) == UNION { [1..n -> rows] : n \in 0..MaxRows }

\* rtsim.readRT(routetable, 'linuxrt') and rtsim.readRT(csvfile, 'csv'): main
\* reads the route table first, then the CSV file; an exception ends main
ReadRT(infile, form) ==
  /\ \/ op.name = "init"
     \/ form = "csv" /\ op.name = "readRT" /\ op.arg = "linuxrt" /\ op.exc = NoExc
  /\ LET r == readRT(rtsim, infile, form)
     IN  /\ rtsim' = r.trees
         /\ ingested' = ingested \o r.yielded
         /\ op' = Op("readRT", infile, form, r.yielded, r.exc)
  /\ UNCHANGED <<preview, pfxs, table, vrps, inserted>>

\* rtsim.matchIP(ipap) in main's loop, which catches KeyError
MatchIP(ipa) ==
  /\ \/ op.name = "readRT" /\ op.exc = NoExc
     \/ op.name = "matchIP"
  /\ LET res == matchIP(rtsim, ipa)
     IN  op' = Op("matchIP", ipa, None, IF res = None THEN <<>> ELSE res[1],
                  IF res = None THEN "KeyError" ELSE NoExc)
  /\ UNCHANGED <<preview, pfxs, table, rtsim, vrps, inserted, ingested>>

\* vrps.readVRPS(vrpsfile)
ReadVRPS(vrpsfile) ==
  /\ op.name = "init"
  /\ LET r == readVRPS(vrps, vrpsfile)
     IN  /\ vrps' = r.trees
         /\ ingested' = ingested \o r.yielded
         /\ op' = Op("readVRPS", vrpsfile, "vrps", r.yielded, r.exc)
  /\ UNCHANGED <<preview, pfxs, table, rtsim, inserted>>

\* set(vrps.matchPfx(ipnp)) in main's loop
MatchPfx(inpfx) ==
  /\ op.name \in {"readVRPS", "matchPfx"}
  /\ op' = Op("matchPfx", inpfx, None, matchPfx(vrps, inpfx), NoExc)
  /\ UNCHANGED <<preview, pfxs, table, rtsim, vrps, inserted, ingested>>

NextMain ==
  \/ \E infile \in Files(LinuxLines) : ReadRT(infile, "linuxrt")
  \/ \E infile \in Files(CsvRows) : ReadRT(infile, "csv")
  \/ \E ipa \in Addrs : MatchIP(ipa)
  \/ \E vrpsfile \in Files(VrpRows) : ReadVRPS(vrpsfile)
  \/ \E inpfx \in Announced : MatchPfx(inpfx)

SpecMain == Start /\ [][NextMain]_vars

----------------------------------------------------------------------------
(* RPKIValidatorAPI.getBGPPreview against a validator that answers freely *)

\* MAX_REQUEST_ATTEMPTS = 3
MAX_REQUEST_ATTEMPTS == 3

\* lastModified arrives in milliseconds: int(int(...)/1000)
MsPerSecond == 1000

\* the totalCount values and the data lengths the validator answers with
Counts == {0, 1, 2}

\* the lastModified values (milliseconds) the validator answers with
Stamps == {1000, 1999, 2000}

\* a decoded JSON response: its metadata and its data rows
Response(totalCount, lastModified, n) ==
  [metadata |-> [totalCount |-> totalCount, lastModified |-> lastModified],
   data |-> [r \in 1..n |-> "row"]]

\* what _get may return
Responses == { Response(c, t, n) : c \in Counts, t \in Stamps, n \in Counts }

\* RPKIValidatorAPI.decodeBGPPreviewMeta: (totalCount, lastModified in seconds)
decodeBGPPreviewMeta(response) ==
  <<response.metadata.totalCount, response.metadata.lastModified \div MsPerSecond>>

\* apiep.getBGPPreview(maxAttempts): the loop is entered with i = 0
Call(maxAttempts) ==
  /\ preview.pc = "idle"
  /\ preview' = Activation("meta", maxAttempts, 0, 0, 0, 0, None)
  /\ UNCHANGED <<pfxs, table, rtsim, vrps, inserted, ingested, op>>

\* totalCount, lastModified = self.getBGPPreviewMeta(), answered by response
GetMeta(response) ==
  /\ preview.pc = "meta"
  /\ LET meta == decodeBGPPreviewMeta(response)
     IN  preview' = [preview EXCEPT !.pc = "data", !.attempts = @ + 1,
                                    !.totalCount = meta[1], !.lastModified = meta[2]]
  /\ UNCHANGED <<pfxs, table, rtsim, vrps, inserted, ingested, op>>

\* the three tests of the loop body: none of them `continue`s
Consistent(totalCount, lastModified, response) ==
  LET meta == decodeBGPPreviewMeta(response)
  IN  /\ lastModified = meta[2]
      /\ totalCount = meta[1]
      /\ Len(response.data) = totalCount

\* response = self._get(self._genBGPPreviewUrl(0, totalCount)) and the rest of
\* the loop body: return response, or continue with the next i of
\* range(0, self.MAX_REQUEST_ATTEMPTS), after the last of which the
\* exception is raised
GetData(response) ==
  /\ preview.pc = "data"
  /\ preview' =
       IF Consistent(preview.totalCount, preview.lastModified, response)
       THEN [preview EXCEPT !.pc = "returned", !.response = Some(response)]
       ELSE [preview EXCEPT !.i = @ + 1,
                            !.pc = IF preview.i + 1 < MAX_REQUEST_ATTEMPTS
                                   THEN "meta"
                                   ELSE "raised"]
  /\ UNCHANGED <<pfxs, table, rtsim, vrps, inserted, ingested, op>>

NextPreview ==
  \/ \E maxAttempts \in 1..MaxAttemptsArg : Call(maxAttempts)
  \/ \E response \in Responses : GetMeta(response)
  \/ \E response \in Responses : GetData(response)

SpecPreview == Start /\ [][NextPreview]_vars

----------------------------------------------------------------------------
(* Reference notions the properties are stated with *)

\* bit j (1 = most significant bit of the first byte) of a byte sequence
MsbBit(abytes, j) ==
  (abytes[((j - 1) \div BitsPerByte) + 1]
     \div Pow2(BitsPerByte - 1 - ((j - 1) % BitsPerByte))) % 2 = 1

\* network P contains the network or address Q
Covers(P, Q) ==
  /\ P.version = Q.version
  /\ P.prefixlen <= Q.prefixlen
  /\ \A j \in 1..P.prefixlen : MsbBit(P.packed, j) = MsbBit(Q.packed, j)

DefaultKey(ipv) == Network(ipv, <<>>, 0)

\* the inserted networks that contain Q
Covering(Q) == { P \in DOMAIN inserted : Covers(P, Q) }

\* the inserted network of greatest prefix length that contains Q
Longest(Q) == CHOOSE P \in Covering(Q) : \A R \in Covering(Q) : R.prefixlen <= P.prefixlen

IsLookup == op.name \in {"lookupAll", "lookupLongestPrefix"}

----------------------------------------------------------------------------
(* C10: for every packed address and every limit in [0, width], _bits      *)
(* yields exactly `limit` booleans, the first `limit` bits of the address  *)
(* most-significant bit first; limit 0 yields the empty sequence.          *)
C10_BitsExactlyLimit ==
  op.name = "_bits" =>
    /\ Len(op.res) = op.arg
    /\ \A j \in 1..Len(op.res) : op.res[j] = MsbBit(op.key, j)

----------------------------------------------------------------------------
(* The trie's lookups against the inserted prefixes *)

\* the entry of inserted prefix P as a lookup reports it
IsEntry(view, P) == view.key = Some(P) /\ view.value = Some(inserted[P])

\* C1: once a key of prefix length 0 has been inserted into a family's trie,
\* every lookup of every address of that family succeeds and returns at
\* least that entry, and exactly that entry when no more specific inserted
\* prefix contains the address.
C1_DefaultRoute ==
  (IsLookup /\ op.key \in Addrs /\ DefaultKey(op.key.version) \in DOMAIN inserted) =>
    LET D == DefaultKey(op.key.version)
    IN  /\ op.exc = NoExc
        /\ op.res # <<>>
        /\ op.name = "lookupAll" => \E i \in 1..Len(op.res) : IsEntry(op.res[i], D)
        /\ Covering(op.key) = {D} => \A i \in 1..Len(op.res) : IsEntry(op.res[i], D)

\* C2: for every inserted prefix P and every query Q of the same family
\* contained in P, findAll(Q) yields P's node with P's value, and
\* findLongestPrefix(Q) returns the node of the inserted prefix of greatest
\* prefix length among those containing Q.
C2_Containment ==
  /\ op.name = "lookupAll" =>
       \A P \in Covering(op.key) : \E i \in 1..Len(op.res) : IsEntry(op.res[i], P)
  /\ (op.name = "lookupLongestPrefix" /\ Covering(op.key) # {}) =>
       (Len(op.res) = 1 /\ IsEntry(op.res[1], Longest(op.key)))

\* C3: no lookup of Q returns the node or value of a stored prefix that does
\* not contain Q.
C3_NoLeakage ==
  IsLookup =>
    \A i \in 1..Len(op.res) :
      op.res[i].key # None /\ Covers(op.res[i].key[1], op.key)

\* the node paths that spell the first d bits of Q, for d up to Q's prefix
\* length (the width of the family for an address)
OnPathTo(p, Q) ==
  /\ Len(p) <= Q.prefixlen
  /\ \A j \in 1..Len(p) : p[j] = MsbBit(Q.packed, j)

\* C11: findAll(key) / lookupAll(key) yields every value-carrying node on the
\* path to key, each exactly once, in strictly increasing prefix-length order
\* (shallowest first); its last element is the node findLongestPrefix(key)
\* returns (which returns None when nothing is yielded), and no node without
\* a stored key is ever yielded.
C11_FindAllOrdered ==
  op.name = "lookupAll" =>
    LET v == op.key.version
        nodes == pfxs[v]
        best == findLongestPrefix(nodes, v, op.key)
        n == Len(op.res)
    IN  /\ \A p \in DOMAIN nodes :
             (OnPathTo(p, op.key) /\ nodes[p].value # None) =>
               Cardinality({ i \in 1..n : op.res[i].path = p }) = 1
        /\ \A i, j \in 1..n : op.res[i].path = op.res[j].path => i = j
        /\ \A i \in 1..n : op.res[i].key # None /\ op.res[i].value # None
        /\ \A i \in 1..(n - 1) :
             /\ Len(op.res[i].path) < Len(op.res[i + 1].path)
             /\ op.res[i].key[1].prefixlen < op.res[i + 1].key[1].prefixlen
        /\ best = IF n = 0 THEN None ELSE Some(op.res[n].path)

\* lookupAll(192.168.1.5) with 192.168.0.0/16 and 192.168.1.0/24 inserted
\* has reported the /16 and then the /24
C11_Witness ==
  /\ op.name = "lookupAll"
  /\ op.key = Address(4, <<192, 168, 1, 5>>)
  /\ Len(op.res) = 2
  /\ IsEntry(op.res[1], Network(4, <<192, 168>>, 16))
  /\ IsEntry(op.res[2], Network(4, <<192, 168, 1>>, 24))

\* C13: findExact(key) returns a node only when that node's stored key equals
\* key, and signals KeyError for every key that was never inserted (the
\* terminal node missing, key a strict ancestor on the path to a deeper
\* inserted key, key a bare address covered by an inserted network alike);
\* `key in tree` is true exactly when findExact succeeds.
C13_FindExact ==
  /\ op.name = "lookupExact" =>
       /\ op.exc \in {NoExc, "KeyError"}
       /\ op.exc = NoExc <=> op.res # <<>>
       /\ op.res # <<>> => op.res[1].key = Some(op.key)
       /\ op.key \notin DOMAIN inserted => op.exc = "KeyError"
  /\ op.name = "__contains__" =>
       LET v == op.key.version
       IN  /\ op.res[1] <=> findExact(pfxs[v], v, op.key) # None
           /\ op.res[1] => \E p \in DOMAIN pfxs[v] : pfxs[v][p].key = Some(op.key)
           /\ op.key \notin DOMAIN inserted => ~op.res[1]

\* an exact lookup of a network that was never inserted but contains an
\* inserted, longer one has ended in KeyError
C13_Witness ==
  /\ op.name = "lookupExact"
  /\ op.exc = "KeyError"
  /\ IsNetwork(op.key)
  /\ op.key \notin DOMAIN inserted
  /\ \E P \in DOMAIN inserted : Covers(op.key, P) /\ op.key.prefixlen < P.prefixlen
  /\ Len(traverse(pfxs[op.key.version], op.key.version, op.key)) >= op.key.prefixlen
  /\ op.key.prefixlen > 0

\* the node path that spells the first prefixlen bits of network K
OwnPath(K) == [j \in 1..K.prefixlen |-> MsbBit(K.packed, j)]

\* C14: every inserted network key K is stored at its own trie node at depth
\* K.prefixlen, and inserting another key leaves K's stored key and value
\* unchanged: after any sequence of inserts every inserted key is found at
\* that node by an exact lookup, with the value last assigned to it.
C14_NoClobber ==
  \A K \in DOMAIN inserted :
    LET nodes == pfxs[K.version]
    IN  /\ OwnPath(K) \in DOMAIN nodes
        /\ nodes[OwnPath(K)].key = Some(K)
        /\ nodes[OwnPath(K)].value = Some(inserted[K])
        /\ findExact(nodes, K.version, K) = Some(OwnPath(K))

\* the second assignment to a key that an exact lookup already found, with a
\* value other than the one stored
SecondInsert ==
  /\ op.name = "__setitem__"
  /\ op.res # <<>>
  /\ op.res[1].value # Some(op.arg)

----------------------------------------------------------------------------
(* The linear scanner and the tries *)

\* no stored prefix is of the query's family, and at least one is stored
OtherFamilyOnly ==
  /\ inserted # <<>>
  /\ \A P \in DOMAIN inserted : P.version # op.key.version

\* C7: a query of one family against an index that holds only prefixes of
\* the other family ends in the ordinary no-match outcome (an empty
\* sequence, (None, None), KeyError), with no entry and no other error, for
\* the linear scanner and for the tries alike.
C7_FamilyIsolation ==
  /\ (op.name \in {"match", "matchBest"} /\ OtherFamilyOnly) =>
       (op.res = <<>> /\ op.exc = NoExc)
  /\ (op.name = "lookupLongestPrefix" /\ OtherFamilyOnly) =>
       (op.res = <<>> /\ op.exc = "KeyError")

\* the stored (prefix, value) entries whose prefix contains Q
Containing(Q) == { [k |-> P, v |-> inserted[P]] : P \in Covering(Q) }

\* C12: IPFind.match(key) yields exactly the stored (prefix, value) entries
\* whose prefix contains key, each once, and IPFind.matchBest(key) returns
\* one of those entries whose prefix length is the greatest among them, or
\* (None, None) when no stored prefix contains key; neither ends in an error.
C12_LinearScan ==
  /\ op.name = "match" =>
       /\ op.exc = NoExc
       /\ { op.res[i] : i \in 1..Len(op.res) } = Containing(op.key)
       /\ Len(op.res) = Cardinality(Containing(op.key))
  /\ op.name = "matchBest" =>
       /\ op.exc = NoExc
       /\ op.res = None <=> Containing(op.key) = {}
       /\ op.res # None =>
            /\ op.res[1] \in Containing(op.key)
            /\ \A e \in Containing(op.key) : e.k.prefixlen <= op.res[1].k.prefixlen

\* C8: with the same prefixes loaded into an IPFind and an IPTree,
\* IPFind.matchBest and IPTree.findLongestPrefix identify the same stored
\* prefix and value for every query, and report no match for the same
\* queries.
C8_TwoStrategies ==
  op.name = "matchBest" =>
    LET v == op.key.version
        best == findLongestPrefix(pfxs[v], v, op.key)
    IN  /\ op.exc = NoExc
        /\ op.res = None <=> best = None
        /\ op.res # None =>
             /\ pfxs[v][best[1]].key = Some(op.res[1].k)
             /\ pfxs[v][best[1]].value = Some(op.res[1].v)

----------------------------------------------------------------------------
(* The routing matcher, the VRP matcher and their row sources *)

\* the networks the row sources yielded
IngestedNets == { ingested[i][1] : i \in 1..Len(ingested) }

\* the ingested networks that contain Q
CoveringIngested(Q) == { P \in IngestedNets : Covers(P, Q) }

\* the rows ingested with network P, in input order
RowsOf(P) ==
  LET sel == SelectSeq(ingested, LAMBDA t : t[1] = P)
  IN  [i \in 1..Len(sel) |-> sel[i][2]]

\* C5: matchIP signals KeyError exactly when no ingested prefix of the
\* address's family contains the address; otherwise it returns the list of
\* all ingested rows whose network is the longest ingested prefix containing
\* the address, in input order.
C5_MatchIP ==
  op.name = "matchIP" =>
    LET cov == CoveringIngested(op.key)
        best == CHOOSE P \in cov : \A R \in cov : R.prefixlen <= P.prefixlen
    IN  /\ op.exc = "KeyError" <=> cov = {}
        /\ cov # {} => op.res = RowsOf(best)

\* C6: matchPfx yields, as a set, exactly the ingested VRP tuples whose
\* prefix contains the announced network and whose maxLength is at least the
\* announced prefix length, or all covering tuples for a single-address
\* announced network.
C6_MatchPfx ==
  op.name = "matchPfx" =>
    op.res = { t \in { ingested[i] : i \in 1..Len(ingested) } :
                 /\ Covers(t[1], op.key)
                 /\ \/ op.key.prefixlen <= t[2]
                    \/ op.key.prefixlen = DefaultLimit(op.key.version) }

\* C15: getBGPPreview(maxAttempts) makes at most maxAttempts download
\* attempts; it returns a response only if that response's lastModified and
\* totalCount equal the metadata requested just before it and its data length
\* equals totalCount; and it raises RPKIValidatorAPIException exactly once
\* maxAttempts consecutive attempts were inconsistent.
C15_BoundedAttempts ==
  /\ preview.attempts <= preview.maxAttempts
  /\ preview.pc = "returned" =>
       LET response == preview.response[1]
       IN  /\ response.metadata.totalCount = preview.totalCount
           /\ response.metadata.lastModified \div MsPerSecond = preview.lastModified
           /\ Len(response.data) = preview.totalCount
  /\ preview.pc = "raised" =>
       (preview.i = preview.maxAttempts /\ preview.attempts = preview.maxAttempts)
  /\ (preview.pc # "idle" /\ preview.i >= preview.maxAttempts) => preview.pc = "raised"

\* the tuples of the rows of infile that a row source can parse, in order
WellFormed(form, infile) ==
  LET sel == SelectSeq(infile, LAMBDA r : RowSource(form, r).kind = "yield")
  IN  [i \in 1..Len(sel) |-> RowSource(form, sel[i]).tuple]

\* C9: every row source skips each malformed row on its own and ingests
\* every well-formed row of the input; a malformed row never aborts the
\* ingestion.
C9_RowsSkipped ==
  op.name \in {"readRT", "readVRPS"} =>
    /\ op.exc = NoExc
    /\ op.res = WellFormed(op.arg, op.key)

====
